---- MODULE Spec2Model ----
(***************************************************************************)
(* Model of src/app.py: the Aadhaar biometric-authentication dashboard.    *)
(* The process state is the set of CSV files on disk, the two              *)
(* st.cache_data stores (load_data, load_geojson), the widget state of a   *)
(* session and what the last render pass (main) produced.  Every user      *)
(* interaction reruns main as a whole.                                     *)
(***************************************************************************)
EXTENDS Integers, Sequences, FiniteSets, TLC

VARIABLES
    disk,       \* the CSV files found under the data folders, in discovery order
    cache,      \* st.cache_data store of load_data
    diskReads,  \* how many times the body of load_data has run (read the files)
    geoCache,   \* st.cache_data store of load_geojson: "miss", "geojson" or "None"
    widgets,    \* the session's widget state (FilterState and the map selection)
    out         \* what the last run of main produced

vars == <<disk, cache, diskReads, geoCache, widgets, out>>

----------------------------------------------------------------------------
(* Bounds of the model *)

\* rows of one source file
MaxRows == 2
\* source files found on disk
MaxFiles == 2
\* regions of the one-record-per-region files
MaxRegions == 3
\* regions of the files whose regions all differ in their totals
MaxDistinct == 54

----------------------------------------------------------------------------
(* Values *)

\* the recognised columns (spec section 6; app.py uses them by these names)
Cols == {"date", "state", "district", "pincode", "bio_age_5_17", "bio_age_17_"}

age_5_17_col == "bio_age_5_17"
age_17_plus_col == "bio_age_17_"

\* the sentinel choice of both dropdowns
All == "All"

\* a missing text cell (pandas NaN in an object column)
NaN == "NaN"
\* a missing datetime cell (pandas NaT), below every date ordinal
NaT == 0
\* a missing numeric cell (pandas NaN in a numeric column)
NaNCount == -1
\* a missing raw cell of the date column, before conversion
NoText == <<>>

\* raw date texts <<day, month, year>> as they stand in the files
Jan01 == <<1, 1, 2025>>
Jan03 == <<3, 1, 2025>>
Feb31 == <<31, 2, 2025>>

DaysInMonth(m, y) ==
    IF m = 2 THEN (IF y % 4 = 0 /\ (y % 100 # 0 \/ y % 400 = 0) THEN 29 ELSE 28)
    ELSE IF m \in {4, 6, 9, 11} THEN 30 ELSE 31

\* days from the start of year 2000 to the first of month m (m > 12 never asked)
RECURSIVE DaysBeforeMonth(_, _)
DaysBeforeMonth(m, y) ==
    IF m <= 1 THEN 0 ELSE DaysBeforeMonth(m - 1, y) + DaysInMonth(m - 1, y)

\* pd.to_datetime(text, format='%d-%m-%Y', errors='coerce'): the day ordinal of a
\* valid day-month-year text, NaT for a missing or an invalid one
to_datetime(text) ==
    IF Len(text) # 3 THEN NaT
    ELSE LET d == text[1]
             m == text[2]
             y == text[3]
         IN  IF m \in 1..12 /\ d \in 1..DaysInMonth(m, y)
             THEN (y - 2000) * 366 + DaysBeforeMonth(m, y) + d
             ELSE NaT

\* Series.isna() of one cell of a text column, and of the date column
isna(v) == v = NaN
isnat(v) == v = NaT

\* the value a skipna sum adds for a cell
Val(v) == IF v = NaNCount THEN 0 ELSE v

----------------------------------------------------------------------------
(* Sequences *)

Range(s) == {s[i] : i \in 1..Len(s)}

SeqsUpTo(S, n) == UNION {[1..k -> S] : k \in 0..n}

RECURSIVE Concat(_)
Concat(ss) == IF ss = <<>> THEN <<>> ELSE Head(ss) \o Concat(Tail(ss))

RECURSIVE SumSeq(_)
SumSeq(s) == IF s = <<>> THEN 0 ELSE Head(s) + SumSeq(Tail(s))

\* the members of a finite set of strings or numbers in some fixed order
RECURSIVE SetToSeq(_)
SetToSeq(S) ==
    IF S = {} THEN <<>>
    ELSE LET x == CHOOSE x \in S : TRUE IN <<x>> \o SetToSeq(S \ {x})

----------------------------------------------------------------------------
(* Data Loader: load_data, app.py 98-132 *)

\* pd.DataFrame(): no columns, no rows
EmptyFrame == [columns |-> {}, rows |-> <<>>]

\* empty that takes every frame to hold data
empty_never(df) == FALSE

\* DataFrame.empty: an axis of length 0
empty(df) == df.columns = {} \/ df.rows = <<>>

\* a parsed row seen through the columns `columns`: a cell of a column the file
\* does not have is missing
Reindex(r, have) ==
    [date         |-> IF "date" \in have THEN r.date ELSE NoText,
     state        |-> IF "state" \in have THEN r.state ELSE NaN,
     district     |-> IF "district" \in have THEN r.district ELSE NaN,
     bio_age_5_17 |-> IF age_5_17_col \in have THEN r.bio_age_5_17 ELSE NaNCount,
     bio_age_17_  |-> IF age_17_plus_col \in have THEN r.bio_age_17_ ELSE NaNCount]

\* pd.read_csv(file) succeeded (the except branch of the loop otherwise)
read_csv_ok(file) == file.ok

\* pd.read_csv(file): the frame of one parsed file
read_csv(file) ==
    [columns |-> file.cols,
     rows    |-> [i \in 1..Len(file.rows) |-> Reindex(file.rows[i], file.cols)]]

\* pd.concat(dfs, ignore_index=True): the union of the columns, every row of every
\* frame in order, relabelled 0..n-1
concat(dfs) ==
    LET all == Concat([i \in 1..Len(dfs) |-> dfs[i].rows])
    IN  [columns |-> UNION {dfs[i].columns : i \in 1..Len(dfs)},
         rows    |-> [i \in 1..Len(all) |->
                        [idx          |-> i - 1,
                         date         |-> all[i].date,
                         state        |-> all[i].state,
                         district     |-> all[i].district,
                         bio_age_5_17 |-> all[i].bio_age_5_17,
                         bio_age_17_  |-> all[i].bio_age_17_]]]

\* combined_df['date'] = pd.to_datetime(...) when the column exists; a frame
\* without the column has no date cells to read (NaT stands in the record)
convert_date(df) ==
    [df EXCEPT !.rows = [i \in 1..Len(df.rows) |->
        [df.rows[i] EXCEPT !.date =
            IF "date" \in df.columns THEN to_datetime(df.rows[i].date) ELSE NaT]]]

\* the files the loop skips with st.warning, by position
warned_files(data_files) == {i \in 1..Len(data_files) : ~read_csv_ok(data_files[i])}

\* load_data without the try/except: one file that fails, and nothing is loaded
load_data_body_strict(data_files) ==
    IF data_files # <<>> /\ warned_files(data_files) = {}
    THEN convert_date(concat([i \in 1..Len(data_files) |-> read_csv(data_files[i])]))
    ELSE EmptyFrame

\* the body of load_data on the files found
load_data_body(data_files) ==
    LET dfs == [i \in 1..Len(SelectSeq(data_files, read_csv_ok)) |->
                   read_csv(SelectSeq(data_files, read_csv_ok)[i])]
    IN  IF data_files # <<>> /\ dfs # <<>>
        THEN convert_date(concat(dfs))
        ELSE EmptyFrame

\* @st.cache_data: the stored return value, once there is one
\* (`files` and `warned` record the run of the body that filled the store: the
\* data_files it read and the positions it skipped with st.warning)
CacheMiss == [hit |-> FALSE, value |-> EmptyFrame, files |-> <<>>, warned |-> {}]

\* load_data() as main calls it: the stored value on a hit, the body otherwise
load_data(c, d) == IF c.hit THEN c.value ELSE load_data_body(d)

\* a store that runs the body again on every call
cache_after_refresh(c, d) ==
    [hit |-> TRUE, value |-> load_data_body(d), files |-> d, warned |-> warned_files(d)]

\* the store after the call
cache_after(c, d) ==
    IF c.hit THEN c
    ELSE [hit |-> TRUE, value |-> load_data_body(d), files |-> d,
          warned |-> warned_files(d)]

\* runs of the body after the call
reads_after(c, n) == IF c.hit THEN n ELSE n + 1

----------------------------------------------------------------------------
(* Filter Engine: main, app.py 170-197 *)

\* the non-missing dates of the frame
Dates(df) == {df.rows[i].date : i \in 1..Len(df.rows)} \ {NaT}

\* 'date' in df.columns and not df['date'].isna().all()
has_date_filter(df) == "date" \in df.columns /\ Dates(df) # {}

date_min(df) == CHOOSE d \in Dates(df) : \A e \in Dates(df) : d <= e
date_max(df) == CHOOSE d \in Dates(df) : \A e \in Dates(df) : d >= e

\* what st.date_input can return: both endpoints, or the first alone while the
\* second is not picked yet, each a day between min_value and max_value
DateInputs(df) ==
    LET days == date_min(df)..date_max(df)
    IN  {<<p[1], p[2]>> : p \in {q \in days \X days : q[1] <= q[2]}}
          \cup {<<lo>> : lo \in days}

\* the value of the date widget in this run: the session's, or the default
\* value=(min, max) of a widget not touched yet
date_input(df, w) ==
    IF w.date_range \in DateInputs(df) THEN w.date_range
    ELSE <<date_min(df), date_max(df)>>

\* date_filter that lets the records without a date through
date_filter_keepnat(df, date_range) ==
    IF Len(date_range) = 2
    THEN LET Keep(r) ==
                 isnat(r.date) \/ (r.date >= date_range[1] /\ r.date <= date_range[2])
         IN  [df EXCEPT !.rows = SelectSeq(df.rows, Keep)]
    ELSE df

\* date_filter with the end of the range left out
date_filter_exclusive(df, date_range) ==
    IF Len(date_range) = 2
    THEN LET Keep(r) == ~isnat(r.date) /\ r.date >= date_range[1] /\ r.date < date_range[2]
         IN  [df EXCEPT !.rows = SelectSeq(df.rows, Keep)]
    ELSE df

\* lines 179-181: the inclusive range test, only for a two-endpoint range; a NaT
\* compares false with every timestamp.  df[mask] keeps the order of the rows
\* and their index labels.
date_filter(df, date_range) ==
    IF Len(date_range) = 2
    THEN LET Keep(r) == ~isnat(r.date) /\ r.date >= date_range[1] /\ r.date <= date_range[2]
         IN  [df EXCEPT !.rows = SelectSeq(df.rows, Keep)]
    ELSE df

\* df[col].dropna().unique() for the two text columns
unique_states(df) == {df.rows[i].state : i \in 1..Len(df.rows)} \ {NaN}
unique_districts(df) == {df.rows[i].district : i \in 1..Len(df.rows)} \ {NaN}

\* ['All'] + sorted(...): the options of a dropdown (their order is not modelled;
\* 'All' is the first one, the default of an untouched selectbox)
state_options(df) == {All} \cup unique_states(df)
district_options(df) == {All} \cup unique_districts(df)

\* st.selectbox: the session's choice while it is one of the options, else the first
selectbox(options, choice) == IF choice \in options THEN choice ELSE All

\* state_filter that narrows nothing
state_filter_none(df, selected_state) == df

\* line 189
state_filter(df, selected_state) ==
    IF selected_state # All
    THEN LET Keep(r) == r.state = selected_state
         IN  [df EXCEPT !.rows = SelectSeq(df.rows, Keep)]
    ELSE df

\* line 197
district_filter(df, selected_district) ==
    IF selected_district # All
    THEN LET Keep(r) == r.district = selected_district
         IN  [df EXCEPT !.rows = SelectSeq(df.rows, Keep)]
    ELSE df

\* line 192 reads selected_state, which only line 186 binds: UnboundLocalError
\* when the frame has a district column and no state column
raises_district_filter(columns) == "district" \in columns /\ "state" \notin columns

----------------------------------------------------------------------------
(* Aggregator: the group-by tables of main *)

\* Series.sum() of a count column over rows (missing cells are skipped)
sum_5_17(rows) == SumSeq([i \in 1..Len(rows) |-> Val(rows[i].bio_age_5_17)])
sum_17_plus(rows) == SumSeq([i \in 1..Len(rows) |-> Val(rows[i].bio_age_17_)])

\* the rows of one group of df.groupby('state'); a missing state is in no group
group_rows(rows, s) == LET In(r) == r.state = s IN SelectSeq(rows, In)

\* the keys of df.groupby('state')
group_keys(rows) == {rows[i].state : i \in 1..Len(rows)} \ {NaN}

\* Series.nunique() of the district column in one group
nunique_district(rows) == Cardinality({rows[i].district : i \in 1..Len(rows)} \ {NaN})

\* n / d rounded to the nearest integer, ties to even (Python's format and
\* numpy's round on the exactly representable ties of the bounded counts)
RoundHalfEven(n, d) ==
    LET q == n \div d
        r == n % d
    IN  IF 2 * r < d THEN q
        ELSE IF 2 * r > d THEN q + 1
        ELSE IF q % 2 = 0 THEN q ELSE q + 1

\* the delta of an age-band metric, lines 237 and 244: the share in tenths of a
\* percent, or the literal "0%" of the else branch
share_delta(part, total_authentications) ==
    IF total_authentications > 0
    THEN [fallback |-> FALSE, tenths |-> RoundHalfEven(1000 * part, total_authentications)]
    ELSE [fallback |-> TRUE, tenths |-> 0]

\* line 452: (young / total * 100).round(2), in hundredths of a percent; pandas
\* divides 0 by 0 to NaN without raising
ratio_5_17(young, total) ==
    IF total = 0
    THEN [nan |-> TRUE, hundredths |-> 0]
    ELSE [nan |-> FALSE, hundredths |-> RoundHalfEven(10000 * young, total)]

\* lines 447-453: state_ratio (nlargest(10) keeps every row of the bounded tables)
state_ratio(rows) ==
    [s \in group_keys(rows) |->
        LET g == group_rows(rows, s)
        IN  [total      |-> sum_5_17(g) + sum_17_plus(g),
             ratio_5_17 |-> ratio_5_17(sum_5_17(g), sum_5_17(g) + sum_17_plus(g))]]

\* lines 476-484: summary_df (the order of its rows is not modelled)
summary_df(rows) ==
    [s \in group_keys(rows) |->
        LET g == group_rows(rows, s)
        IN  [Age_5_17  |-> sum_5_17(g),
             Age_17    |-> sum_17_plus(g),
             Districts |-> nunique_district(g),
             Total     |-> sum_5_17(g) + sum_17_plus(g)]]

\* lines 476-481 aggregate the state, district and pincode columns unguarded:
\* KeyError when one of them is missing
raises_summary_df(columns) == ~({"state", "district", "pincode"} \subseteq columns)

\* lines 378-383 aggregate 'district' under a guard on 'state' alone: KeyError
raises_state_summary(columns) == "state" \in columns /\ "district" \notin columns

----------------------------------------------------------------------------
(* Zone Classifier: main, app.py 506-541 *)

\* the totals of a table in ascending order
RECURSIVE SortedTotals(_, _)
SortedTotals(t, S) ==
    IF S = {} THEN <<>>
    ELSE LET s == CHOOSE x \in S : \A y \in S : t[x].total <= t[y].total
         IN  <<t[s].total>> \o SortedTotals(t, S \ {s})

\* Series.quantile(q) with q = q100 / 100, linear interpolation, as 100 times the
\* value; NaN for an empty series.  Exact arithmetic: the float result lies
\* strictly between two neighbours whenever the exact one does.
quantile(v, q100) ==
    IF v = <<>> THEN [nan |-> TRUE, x100 |-> 0]
    ELSE LET h == (Len(v) - 1) * q100
             i == h \div 100
             f == h % 100
         IN  [nan  |-> FALSE,
              x100 |-> IF f = 0 THEN 100 * v[i + 1]
                       ELSE 100 * v[i + 1] + f * (v[i + 2] - v[i + 1])]

\* get_zone_color_val on fixed cut-offs, whatever the other regions hold
get_zone_color_val_absolute(val, low_threshold, high_threshold) ==
    IF val <= 1 THEN "Low Activity (Red)"
    ELSE IF val <= 2 THEN "Medium Activity (Yellow)"
    ELSE "High Activity (Green)"

\* get_zone_color_val with the boundary value sent to the upper zone
get_zone_color_val_strict(val, low_threshold, high_threshold) ==
    IF ~low_threshold.nan /\ 100 * val < low_threshold.x100
    THEN "Low Activity (Red)"
    ELSE IF ~high_threshold.nan /\ 100 * val < high_threshold.x100
    THEN "Medium Activity (Yellow)"
    ELSE "High Activity (Green)"

\* lines 533-539; a comparison with a NaN threshold is false
get_zone_color_val(val, low_threshold, high_threshold) ==
    IF ~low_threshold.nan /\ 100 * val <= low_threshold.x100
    THEN "Low Activity (Red)"
    ELSE IF ~high_threshold.nan /\ 100 * val <= high_threshold.x100
    THEN "Medium Activity (Yellow)"
    ELSE "High Activity (Green)"

\* map_totals whose total column leaves the older age band out
map_totals_young(rows) ==
    [s \in group_keys(rows) |->
        LET g == group_rows(rows, s)
        IN  [bio_age_5_17 |-> sum_5_17(g),
             bio_age_17_  |-> sum_17_plus(g),
             total        |-> sum_5_17(g)]]

\* lines 507-511: map_data before the Zone column
map_totals(rows) ==
    [s \in group_keys(rows) |->
        LET g == group_rows(rows, s)
        IN  [bio_age_5_17 |-> sum_5_17(g),
             bio_age_17_  |-> sum_17_plus(g),
             total        |-> sum_5_17(g) + sum_17_plus(g)]]

\* low_threshold at the first quartile
low_threshold_quarter(t) == quantile(SortedTotals(t, DOMAIN t), 25)

\* lines 515-516
low_threshold(t) == quantile(SortedTotals(t, DOMAIN t), 33)
high_threshold(t) == quantile(SortedTotals(t, DOMAIN t), 66)

\* line 541: map_data with its Zone column
map_data(rows) ==
    LET t == map_totals(rows)
    IN  [s \in DOMAIN t |->
            [bio_age_5_17 |-> t[s].bio_age_5_17,
             bio_age_17_  |-> t[s].bio_age_17_,
             total        |-> t[s].total,
             Zone         |-> get_zone_color_val(t[s].total, low_threshold(t),
                                                 high_threshold(t))]]

\* line 586 reads map_event, which only line 572 binds, inside
\* `if geojson and 'state' in df.columns`: UnboundLocalError otherwise
raises_interaction(geojson, columns) == geojson = "None" \/ "state" \notin columns

----------------------------------------------------------------------------
(* main, app.py 146-674: one render pass, stage by stage.  A stage that     *)
(* raises ends the pass: what was rendered before stays on the page, and    *)
(* every later stage hands the pass on as it is.                            *)

\* a local name no line has bound yet
Unbound == "<unbound>"

NoTable == [s \in {} |-> 0]
NoQuantile == [nan |-> TRUE, x100 |-> 0]
NoDelta == [fallback |-> FALSE, tenths |-> 0]
NoDeepDive == [s_total |-> 0, s_auth |-> 0, s_districts |-> 0]

\* the widget state of a fresh session
DefaultWidgets ==
    [date_range |-> <<>>, selected_state |-> All, selected_district |-> All,
     map_state |-> ""]

\* a pass that has produced nothing yet
Blank ==
    [status |-> "idle", raised_at |-> "", rendered |-> {}, loaded |-> EmptyFrame,
     date_range |-> <<>>, after_date |-> <<>>,
     states |-> {}, selected_state |-> Unbound, after_state |-> <<>>,
     districts |-> {}, selected_district |-> Unbound, filtered |-> <<>>,
     df |-> <<>>, columns |-> {},
     total_records |-> 0, total_age_5_17 |-> 0, total_age_17_plus |-> 0,
     total_authentications |-> 0, delta_5_17 |-> NoDelta, delta_17_plus |-> NoDelta,
     state_ratio |-> NoTable, summary_df |-> NoTable, csv |-> <<>>,
     geojson |-> "", map_data |-> NoTable,
     low_threshold |-> NoQuantile, high_threshold |-> NoQuantile,
     map_state |-> "", deep_dive |-> NoDeepDive]

Raise(r, site) == [r EXCEPT !.status = "raised", !.raised_at = site]

\* an exception ends the pass: no later stage runs
raised(r) == r.status = "raised"

\* lines 157-163: the header, load_data, and the no-data exit
stage_no_data ==
    [Blank EXCEPT !.status = "no_data", !.rendered = {"header", "no_data_error"}]

\* lines 165-197: the three sidebar filters
stage_filters(df0, w) ==
    LET dated == has_date_filter(df0)
        date_range == IF dated THEN date_input(df0, w) ELSE <<>>
        df1 == IF dated THEN date_filter(df0, date_range) ELSE df0
        has_state == "state" \in df1.columns
        states == IF has_state THEN state_options(df1) ELSE {}
        selected_state ==
            IF has_state THEN selectbox(states, w.selected_state) ELSE Unbound
        df2 == IF has_state THEN state_filter(df1, selected_state) ELSE df1
        r2 == [Blank EXCEPT
                 !.status = "running", !.loaded = df0,
                 !.rendered = {"header"}
                     \cup (IF dated THEN {"date_input"} ELSE {})
                     \cup (IF has_state THEN {"state_select"} ELSE {}),
                 !.date_range = date_range, !.after_date = df1.rows,
                 !.states = states, !.selected_state = selected_state,
                 !.after_state = df2.rows, !.filtered = df2.rows, !.df = df2.rows,
                 !.columns = df2.columns]
    IN  IF "district" \notin df2.columns THEN r2
        ELSE IF raises_district_filter(df2.columns) THEN Raise(r2, "district_filter")
        ELSE IF selected_state = All THEN r2
        ELSE LET districts == district_options(df2)
                 selected_district == selectbox(districts, w.selected_district)
                 df3 == district_filter(df2, selected_district)
             IN  [r2 EXCEPT !.rendered = @ \cup {"district_select"},
                            !.districts = districts,
                            !.selected_district = selected_district,
                            !.filtered = df3.rows,
                            !.df = df3.rows]

\* lines 206-209: df[col] = 0 for a count column the frame lacks
synthesize(rows, columns) ==
    [i \in 1..Len(rows) |->
        [rows[i] EXCEPT
            !.bio_age_5_17 = IF age_5_17_col \in columns THEN @ ELSE 0,
            !.bio_age_17_ = IF age_17_plus_col \in columns THEN @ ELSE 0]]

\* lines 199-245: the key metrics
stage_metrics(r) ==
    IF raised(r) THEN r ELSE
    LET df == synthesize(r.df, r.columns)
        total_age_5_17 == sum_5_17(df)
        total_age_17_plus == sum_17_plus(df)
        total_authentications == total_age_5_17 + total_age_17_plus
    IN  [r EXCEPT !.df = df,
                  !.columns = @ \cup {age_5_17_col, age_17_plus_col},
                  !.total_records = Len(df),
                  !.total_age_5_17 = total_age_5_17,
                  !.total_age_17_plus = total_age_17_plus,
                  !.total_authentications = total_authentications,
                  !.delta_5_17 = share_delta(total_age_5_17, total_authentications),
                  !.delta_17_plus = share_delta(total_age_17_plus, total_authentications),
                  !.rendered = @ \cup {"metrics"}]

\* lines 252-342: the overview charts, each under its own column guard
stage_tab1(r) == IF raised(r) THEN r ELSE [r EXCEPT !.rendered = @ \cup {"tab1"}]

\* lines 344-403: the district chart, then the state scatter
stage_tab2(r) ==
    IF raised(r) THEN r
    ELSE IF raises_state_summary(r.columns) THEN Raise(r, "state_summary")
    ELSE [r EXCEPT !.rendered = @ \cup {"tab2"}]

\* lines 405-469: the age charts, guarded by the state column
stage_tab3(r) ==
    IF raised(r) THEN r ELSE
    [r EXCEPT !.state_ratio = IF "state" \in r.columns THEN state_ratio(r.df) ELSE NoTable,
              !.rendered = @ \cup {"tab3"}]

\* lines 471-498: the summary table, the detailed table and the export
stage_tab4(r) ==
    IF raised(r) THEN r
    ELSE IF raises_summary_df(r.columns) THEN Raise(r, "summary_df")
    ELSE [r EXCEPT !.summary_df = summary_df(r.df),
                   !.csv = r.df,
                   !.rendered = @ \cup {"tab4", "download"}]

\* lines 595-600: the metrics of the state picked on the map
deep_dive(rows, selected_state) ==
    LET state_df == group_rows(rows, selected_state)
    IN  [s_total     |-> Len(state_df),
         s_auth      |-> sum_5_17(state_df) + sum_17_plus(state_df),
         s_districts |-> nunique_district(state_df)]

\* lines 500-661: the zone map, the map interaction, the heatmaps
stage_tab5(r, geojson, w) ==
    IF raised(r) THEN r ELSE
    LET mapped == geojson = "geojson" /\ "state" \in r.columns
        t == map_totals(r.df)
        r5 == IF mapped
              THEN [r EXCEPT !.geojson = geojson,
                             !.map_data = map_data(r.df),
                             !.low_threshold = low_threshold(t),
                             !.high_threshold = high_threshold(t),
                             !.rendered = @ \cup {"map", "zone_table"}]
              ELSE [r EXCEPT !.geojson = geojson]
    IN  IF raises_interaction(geojson, r.columns) THEN Raise(r5, "map_event")
        ELSE [r5 EXCEPT
                !.map_state = w.map_state,
                !.deep_dive = IF w.map_state # "" THEN deep_dive(r.df, w.map_state)
                              ELSE NoDeepDive,
                !.rendered = @ \cup (IF w.map_state # "" THEN {"deep_dive"} ELSE {})
                               \cup {"heatmaps"}]

\* lines 663-674
stage_footer(r) ==
    IF raised(r) THEN r ELSE [r EXCEPT !.status = "done", !.rendered = @ \cup {"footer"}]

\* main() on the frame load_data returned, the session's widget state and the
\* result of load_geojson
main(df0, w, geojson) ==
    IF empty(df0) THEN [stage_no_data EXCEPT !.loaded = df0]
    ELSE stage_footer(stage_tab5(stage_tab4(stage_tab3(stage_tab2(stage_tab1(
             stage_metrics(stage_filters(df0, w)))))), geojson, w))

\* load_geojson under @st.cache_data, lines 134-144: the stored result, else the
\* fetched document, or None when the fetch raised
load_geojson(g, fetched) ==
    IF g # "miss" THEN g ELSE IF fetched THEN "geojson" ELSE "None"

\* widgets_after in which the state clicked on the map becomes the sidebar's state
widgets_after_leak(r) ==
    [date_range        |-> IF "date_input" \in r.rendered THEN r.date_range ELSE <<>>,
     selected_state    |-> IF "map" \in r.rendered /\ r.map_state # "" THEN r.map_state
                           ELSE IF "state_select" \in r.rendered THEN r.selected_state
                           ELSE All,
     selected_district |-> IF "district_select" \in r.rendered THEN r.selected_district
                           ELSE All,
     map_state         |-> IF "map" \in r.rendered THEN r.map_state ELSE ""]

\* the widget state the session keeps after a pass: the value of every widget
\* the pass rendered; a widget it did not render starts again from its default
widgets_after(r) ==
    [date_range        |-> IF "date_input" \in r.rendered THEN r.date_range ELSE <<>>,
     selected_state    |-> IF "state_select" \in r.rendered THEN r.selected_state ELSE All,
     selected_district |-> IF "district_select" \in r.rendered THEN r.selected_district
                           ELSE All,
     map_state         |-> IF "map" \in r.rendered THEN r.map_state ELSE ""]

----------------------------------------------------------------------------
(* The files the model starts from *)

Unparseable == [ok |-> FALSE, cols |-> {}, rows |-> <<>>]

Row(dt, s, d, y, a) ==
    [date |-> dt, state |-> s, district |-> d, bio_age_5_17 |-> y, bio_age_17_ |-> a]

Parsed(cols, rows) ==
    [ok |-> TRUE, cols |-> cols,
     rows |-> [i \in 1..Len(rows) |-> Reindex(rows[i], cols)]]

\* dated records of two states and their districts, one of them with an invalid date
FilterRows ==
    {Row(Jan01, "AP", "x", 1, 2),
     Row(Jan03, "AP", "y", 1, 2), Row(Jan01, "UP", "y", 1, 2),
     Row(Feb31, "AP", "x", 1, 2)}
FilterFiles == {Parsed(Cols, rows) : rows \in SeqsUpTo(FilterRows, MaxRows)}

\* records of one day with small counts, some without a state
CountRows ==
    {Row(Jan01, s, "x", c[1], c[2]) :
        s \in {"AP", "UP", NaN}, c \in {<<0, 0>>, <<1, 2>>, <<2, 0>>}}
CountFiles == {Parsed(Cols, rows) : rows \in SeqsUpTo(CountRows, MaxRows)}

\* one record per region, for up to MaxRegions regions
StateNames == <<"AP", "BR", "UP", "WB", "TN">>
RegionCounts == {<<0, 0>>, <<1, 1>>, <<0, 3>>}
RegionFiles ==
    UNION {{Parsed(Cols,
                   [i \in 1..n |-> Row(Jan01, StateNames[i], "x", c[i][1], c[i][2])]) :
               c \in [1..n -> RegionCounts]} : n \in 1..MaxRegions}

\* files holding any subset of the recognised columns
ColumnRows == {Row(Jan01, "AP", "x", 1, 2), Row(Jan03, "UP", "y", 0, 0)}
ColumnFiles ==
    {Parsed(cols, rows) :
        cols \in SUBSET Cols, rows \in SeqsUpTo(ColumnRows, MaxRows) \ {<<>>}}

\* several files, some of which do not parse
LoaderFiles ==
    {Unparseable}
    \cup {Parsed(Cols, rows) :
            rows \in {<<>>, <<Row(Jan01, "AP", "x", 1, 2)>>,
                      <<Row(Feb31, "UP", "y", 0, 0), Row(Jan01, "AP", "x", 1, 2)>>}}
    \cup {Parsed(Cols \ {"date", age_5_17_col},
                 <<Row(Feb31, "UP", "y", 0, 0), Row(Jan01, "AP", "x", 1, 2)>>)}

\* one record per region for n regions named "1".."n", the totals pairwise
\* distinct: k, 2k, .., nk
DistinctRows(n, k) == [i \in 1..n |-> Row(Jan01, ToString(i), "x", i, i * (k - 1))]
DistinctFiles ==
    {Parsed(Cols, DistinctRows(n, k)) : n \in 1..MaxDistinct, k \in 1..2}

OneFile(files) == {<<f>> : f \in files}

----------------------------------------------------------------------------
(* The process *)

InitOn(disks) ==
    /\ disk \in disks
    /\ cache = CacheMiss
    /\ diskReads = 0
    /\ geoCache = "miss"
    /\ widgets = DefaultWidgets
    /\ out = Blank

\* the outcomes of the boundary fetch a run can see: it is made only while the
\* store of load_geojson is empty
Fetches == IF geoCache = "miss" THEN BOOLEAN ELSE {TRUE}

\* one run of the script under widget state w; `fetched` is whether the boundary
\* fetch succeeds, should this run make it
Rerun(w, fetched) ==
    /\ out' = main(load_data(cache, disk), w, load_geojson(geoCache, fetched))
    /\ widgets' = widgets_after(out')
    /\ cache' = cache_after(cache, disk)
    /\ diskReads' = reads_after(cache, diskReads)
    /\ geoCache' = IF out'.geojson # "" THEN out'.geojson ELSE geoCache
    /\ UNCHANGED disk

\* a session opens the page (or reloads it): a first pass with default widgets
Open == \E fetched \in Fetches : Rerun(DefaultWidgets, fetched)

\* the user picks a date range
SetDateRange ==
    /\ "date_input" \in out.rendered
    /\ \E dr \in DateInputs(cache.value), fetched \in Fetches :
          Rerun([widgets EXCEPT !.date_range = dr], fetched)

\* the user picks a state in the first dropdown
SelectState ==
    /\ "state_select" \in out.rendered
    /\ \E s \in out.states, fetched \in Fetches :
          Rerun([widgets EXCEPT !.selected_state = s], fetched)

\* the user picks a district in the second dropdown
SelectDistrict ==
    /\ "district_select" \in out.rendered
    /\ \E d \in out.districts, fetched \in Fetches :
          Rerun([widgets EXCEPT !.selected_district = d], fetched)

\* the user clicks a state on the map (on_select="rerun"), or clears the selection
ClickMap ==
    /\ "map" \in out.rendered
    /\ \E s \in DOMAIN out.map_data \cup {""}, fetched \in Fetches :
          Rerun([widgets EXCEPT !.map_state = s], fetched)

\* a source file disappears from disk
RemoveFile ==
    /\ \E i \in 1..Len(disk) :
          disk' = [j \in 1..(Len(disk) - 1) |-> IF j < i THEN disk[j] ELSE disk[j + 1]]
    /\ UNCHANGED <<cache, diskReads, geoCache, widgets, out>>

Next == Open \/ SetDateRange \/ SelectState \/ SelectDistrict \/ ClickMap \/ RemoveFile

\* the process started on up to MaxFiles files, some of which do not parse
Init == InitOn(SeqsUpTo(LoaderFiles, MaxFiles))
Spec == Init /\ [][Next]_vars

\* the process started on one file of dated records
InitFilter == InitOn(OneFile(FilterFiles))
SpecFilter == InitFilter /\ [][Next]_vars

\* the process started on one file of records with small counts
InitCounts == InitOn(OneFile(CountFiles))
SpecCounts == InitCounts /\ [][Next]_vars

\* the process started on one file with one record per region
InitZones == InitOn(OneFile(RegionFiles))
SpecZones == InitZones /\ [][Next]_vars

\* the process started on one file of regions with distinct totals, the page
\* opened and reloaded under the default filters
InitProportions == InitOn(OneFile(DistinctFiles))
SpecProportions == InitProportions /\ [][Open]_vars

\* the process started on one file with any subset of the columns
InitColumns == InitOn(OneFile(ColumnFiles))
SpecColumns == InitColumns /\ [][Next]_vars

----------------------------------------------------------------------------
(* What the claims speak of, stated on the records themselves *)

Low == "Low Activity (Red)"
Medium == "Medium Activity (Yellow)"
High == "High Activity (Green)"

\* countYoung + countAdult of one record
RecordTotal(r) == Val(r.bio_age_5_17) + Val(r.bio_age_17_)

\* the regions of a table, and the sum of the per-record totals of one of them
Regions(rows) == {rows[i].state : i \in 1..Len(rows)} \ {NaN}
RegionTotal(rows, s) ==
    SumSeq([i \in 1..Len(rows) |-> IF rows[i].state = s THEN RecordTotal(rows[i]) ELSE 0])
RegionTotals(rows) == [s \in Regions(rows) |-> RegionTotal(rows, s)]

\* the k-th smallest of the totals t: fewer than k regions lie below it and at
\* least k at or below it
OrderStat(t, k) ==
    CHOOSE v \in {t[s] : s \in DOMAIN t} :
        /\ Cardinality({s \in DOMAIN t : t[s] < v}) < k
        /\ k <= Cardinality({s \in DOMAIN t : t[s] <= v})

\* 100 times the q100/100 quantile of the totals t, interpolated linearly between
\* the two order statistics around position (n - 1) * q100 / 100
LinearQuantile100(t, q100) ==
    LET h == (Cardinality(DOMAIN t) - 1) * q100
        i == h \div 100
        f == h % 100
    IN  IF f = 0 THEN 100 * OrderStat(t, i + 1)
        ELSE (100 - f) * OrderStat(t, i + 1) + f * OrderStat(t, i + 2)

----------------------------------------------------------------------------
(* C1 *)

\* C1: whenever the zone map is rendered, the two thresholds are the 0.33 and
\* 0.66 linear-interpolated quantiles of the totals of the visible regions, and
\* every visible region carries exactly one label: Low iff total <= p33, Medium
\* iff p33 < total <= p66, High iff total > p66 (a total equal to a threshold
\* goes to the lower zone).
C1_ZoneClassification ==
    "map" \in out.rendered =>
        LET t == RegionTotals(out.df)
            p33 == out.low_threshold.x100
            p66 == out.high_threshold.x100
        IN  /\ DOMAIN out.map_data = DOMAIN t
            /\ DOMAIN t # {} =>
                  /\ ~out.low_threshold.nan /\ p33 = LinearQuantile100(t, 33)
                  /\ ~out.high_threshold.nan /\ p66 = LinearQuantile100(t, 66)
            /\ \A s \in DOMAIN t :
                  LET z == out.map_data[s].Zone
                  IN  /\ z \in {Low, Medium, High}
                      /\ z = Low <=> 100 * t[s] <= p33
                      /\ z = Medium <=> (p33 < 100 * t[s] /\ 100 * t[s] <= p66)
                      /\ z = High <=> 100 * t[s] > p66

\* a rendered map on which a region's total lies exactly on a threshold and two
\* different labels are in use
C1_Witness ==
    /\ "map" \in out.rendered
    /\ \E s \in DOMAIN out.map_data :
          \/ 100 * out.map_data[s].total = out.low_threshold.x100
          \/ 100 * out.map_data[s].total = out.high_threshold.x100
    /\ \E s1, s2 \in DOMAIN out.map_data : out.map_data[s1].Zone # out.map_data[s2].Zone

----------------------------------------------------------------------------
(* C2, C3 *)

\* the Dataset load_data handed to the last pass
Dataset == out.loaded.rows

\* the last pass got through its filters (line 197)
Filtered == out.status \in {"done", "raised"} /\ out.raised_at # "district_filter"

IdxOf(tbl) == {tbl[i].idx : i \in 1..Len(tbl)}

\* tbl holds rows of the Dataset as they are, in the Dataset's order, none twice
IsSubtable(tbl) ==
    /\ \A i \in 1..Len(tbl) :
          tbl[i].idx + 1 \in 1..Len(Dataset) /\ tbl[i] = Dataset[tbl[i].idx + 1]
    /\ \A i, j \in 1..Len(tbl) : i < j => tbl[i].idx < tbl[j].idx

\* a date column that is not entirely null
DateColumnUsable ==
    "date" \in out.loaded.columns /\ \E i \in 1..Len(Dataset) : Dataset[i].date # NaT

InRange(r) ==
    /\ r.date # NaT
    /\ out.date_range[1] <= r.date
    /\ r.date <= out.date_range[Len(out.date_range)]

\* the three tests of the pipeline as the amended claim states them
PassDate(r) == (DateColumnUsable /\ Len(out.date_range) = 2) => InRange(r)
PassRegion(r) == out.selected_state \notin {All, Unbound} => r.state = out.selected_state
PassSubregion(r) ==
    (out.selected_state \notin {All, Unbound} /\ out.selected_district \notin {All, Unbound})
        => r.district = out.selected_district

\* the date test as the original claim states it: whenever the column is usable
PassDateAlways(r) == DateColumnUsable => InRange(r)

\* C2 (amended): after the filters, the working table is exactly the Dataset rows,
\* in the original order and none duplicated, that pass (1) lo <= date <= hi when
\* the date column exists, is not entirely null and the date picker holds both
\* endpoints, (2) state == selectedRegion unless it is "All", (3) district ==
\* selectedSubregion unless it or selectedRegion is "All"; each stage only removes
\* rows from the previous one, and region "All" leaves its input unchanged.
C2_FilterPipeline ==
    Filtered =>
        /\ IsSubtable(out.after_date) /\ IsSubtable(out.after_state)
        /\ IsSubtable(out.filtered)
        /\ IdxOf(out.after_date) = {r.idx : r \in {x \in Range(Dataset) : PassDate(x)}}
        /\ IdxOf(out.after_state) =
              {r.idx : r \in {x \in Range(Dataset) : PassDate(x) /\ PassRegion(x)}}
        /\ IdxOf(out.filtered) =
              {r.idx : r \in {x \in Range(Dataset) :
                                PassDate(x) /\ PassRegion(x) /\ PassSubregion(x)}}
        /\ IdxOf(out.filtered) \subseteq IdxOf(out.after_state)
        /\ IdxOf(out.after_state) \subseteq IdxOf(out.after_date)
        /\ out.selected_state = All => out.after_state = out.after_date

\* a two-endpoint range, a region and a subregion are selected, the date stage
\* removed a row and the working table is not empty
C2_Witness ==
    /\ Filtered
    /\ Len(out.date_range) = 2
    /\ out.selected_state \notin {All, Unbound}
    /\ out.selected_district \notin {All, Unbound}
    /\ Len(out.after_date) < Len(Dataset)
    /\ out.filtered # <<>>

\* C2 as first stated: the date test applies whenever the date column exists and
\* is not entirely null
C2_Original ==
    Filtered =>
        IdxOf(out.filtered) =
            {r.idx : r \in {x \in Range(Dataset) :
                              PassDateAlways(x) /\ PassRegion(x) /\ PassSubregion(x)}}

\* the distinct subregions among the rows `rows` of region R
SubregionsOf(rows, R) ==
    {r.district : r \in {x \in Range(rows) : x.state = R}} \ {NaN}

\* C3 (amended): after region R (not "All") is selected, the subregion choices
\* are exactly the distinct subregions among the records of R that passed the
\* date filter: none of another region alone, none of those missing.
C3_DependentDropdown ==
    "district_select" \in out.rendered =>
        out.districts \ {All} = SubregionsOf(out.after_date, out.selected_state)

\* the second dropdown is offered and leaves out a subregion that only another
\* region has
C3_Witness ==
    /\ "district_select" \in out.rendered
    /\ out.districts # {All}
    /\ \E r \in Range(out.after_date) :
          r.state # out.selected_state /\ r.district \notin out.districts

\* C3 as first stated: the choices are the distinct subregions among all the
\* Dataset records of R
C3_Original ==
    "district_select" \in out.rendered =>
        out.districts \ {All} = SubregionsOf(Dataset, out.selected_state)

----------------------------------------------------------------------------
(* C4, C5 *)

\* the last pass ran on a Dataset that is not empty
RanOnData == out.status # "idle" /\ ~empty(out.loaded)

\* C4: when load_geojson returns no geometry, the pass still runs to its end
\* without raising: the map is omitted, and the interaction handling, the
\* heatmaps and the footer are rendered.
C4_FetchFailsSoft ==
    (RanOnData /\ out.geojson = "None") =>
        /\ out.status = "done"
        /\ "map" \notin out.rendered
        /\ {"heatmaps", "footer"} \subseteq out.rendered

\* C5: on a Dataset that is not empty, whichever of the recognized columns it
\* holds and whatever the widgets hold, a pass whose boundary fetch did not fail
\* reaches its end without raising.
C5_NoFatalError ==
    (RanOnData /\ out.geojson # "None") => out.status = "done"

----------------------------------------------------------------------------
(* C6, C9 *)

\* the sum of t[s] over the regions s of S
RECURSIVE SumOver(_, _)
SumOver(t, S) ==
    IF S = {} THEN 0
    ELSE LET s == CHOOSE x \in S : TRUE IN t[s] + SumOver(t, S \ {s})

\* the sum of the per-record totals of the records that name no region
NoRegionTotal(rows) ==
    SumSeq([i \in 1..Len(rows) |-> IF isna(rows[i].state) THEN RecordTotal(rows[i]) ELSE 0])

\* the total column of a summary table, region by region
TotalsOf(tbl, field) == [s \in DOMAIN tbl |-> tbl[s][field]]

\* C6 (amended): in each per-region summary of the filtered table (the map's,
\* the ratio chart's, the data tab's) there is exactly one row per distinct
\* region, its total (sum of countYoung plus sum of countAdult over the region's
\* records) equals the sum over those records of (countYoung + countAdult), and
\* the totals over all regions sum to the overall total authentications of the
\* metrics less the counts of the records that name no region.
C6_Aggregation ==
    LET rt == RegionTotals(out.df)
        rest == out.total_authentications - NoRegionTotal(out.df)
    IN  /\ "map" \in out.rendered =>
              /\ TotalsOf(out.map_data, "total") = rt
              /\ \A s \in DOMAIN out.map_data :
                    out.map_data[s].total =
                        out.map_data[s].bio_age_5_17 + out.map_data[s].bio_age_17_
              /\ SumOver(TotalsOf(out.map_data, "total"), DOMAIN out.map_data) = rest
        /\ "tab3" \in out.rendered =>
              /\ TotalsOf(out.state_ratio, "total") = rt
              /\ SumOver(TotalsOf(out.state_ratio, "total"), DOMAIN out.state_ratio) = rest
        /\ "tab4" \in out.rendered =>
              /\ TotalsOf(out.summary_df, "Total") = rt
              /\ SumOver(TotalsOf(out.summary_df, "Total"), DOMAIN out.summary_df) = rest

\* the map is drawn over a region that has two records, each with a count
C6_Witness ==
    /\ "map" \in out.rendered
    /\ \E i, j \in 1..Len(out.df) :
          /\ i < j
          /\ out.df[i].state = out.df[j].state
          /\ ~isna(out.df[i].state)
          /\ RecordTotal(out.df[i]) > 0
          /\ RecordTotal(out.df[j]) > 0
          /\ out.df[i].bio_age_17_ > 0

\* C6 as first stated: the totals over all regions sum to the overall total
\* authentications shown in the metrics
C6_Original ==
    "map" \in out.rendered =>
        SumOver(TotalsOf(out.map_data, "total"), DOMAIN out.map_data)
            = out.total_authentications

\* the defined fallback of a percentage: 0%
ZeroPercent == [nan |-> FALSE, hundredths |-> 0]

\* C9: in every percentage computation a zero total yields the fallback 0%:
\* the two age-band share metrics show it, and so does the percentage of the
\* younger age band of every region whose total is zero.
C9_ZeroTotalFallback ==
    /\ ("metrics" \in out.rendered /\ out.total_authentications = 0) =>
          out.delta_5_17.fallback /\ out.delta_17_plus.fallback
    /\ "tab3" \in out.rendered =>
          \A s \in DOMAIN out.state_ratio :
              out.state_ratio[s].total = 0 => out.state_ratio[s].ratio_5_17 = ZeroPercent

----------------------------------------------------------------------------
(* C7, C8, C10 *)

\* C7: once load_data has been called, every later call returns a Dataset with
\* the same contents without reading the source files again, and no pass or
\* user action (a filter change, the synthesis of a missing count column, a map
\* click, a change on disk) changes what the cache hands out.
C7_LoadOnce ==
    [][cache.hit =>
          /\ load_data(cache', disk') = load_data(cache, disk)
          /\ cache'.value = cache.value
          /\ diskReads' = diskReads
          /\ out'.loaded = cache.value]_vars

\* the Dataset was loaded once, the files on disk have changed since, and a
\* later pass under a region filter synthesized a count column the Dataset lacks
C7_Witness ==
    /\ cache.hit
    /\ diskReads = 1
    /\ load_data_body(disk) # cache.value
    /\ out.selected_state \notin {All, Unbound}
    /\ age_5_17_col \notin cache.value.columns
    /\ age_5_17_col \in out.columns

\* the rows the files before position k put into the Dataset
Offset(files, k) ==
    SumSeq([i \in 1..(k - 1) |-> IF files[i].ok THEN Len(files[i].rows) ELSE 0])

\* row a of the Dataset is row b of a file: the cells of the columns the file has
SameCells(a, b, cols) ==
    /\ "state" \in cols => a.state = b.state
    /\ "district" \in cols => a.district = b.district
    /\ age_5_17_col \in cols => a.bio_age_5_17 = b.bio_age_5_17
    /\ age_17_plus_col \in cols => a.bio_age_17_ = b.bio_age_17_

\* C8: whichever of the files found fail to parse, load_data returns, skips
\* exactly the failing files (one warning each), and its Dataset holds the rows of
\* every parsed file, file after file, each once per occurrence: the row count
\* is the sum of the parsed files' row counts.
C8_LoaderConcat ==
    cache.hit =>
        LET files == cache.files
            rows == cache.value.rows
        IN  /\ out.status # "idle"
            /\ cache.warned = {i \in 1..Len(files) : ~files[i].ok}
            /\ Len(rows) = Offset(files, Len(files) + 1)
            /\ \A k \in 1..Len(files) :
                  files[k].ok =>
                      \A j \in 1..Len(files[k].rows) :
                          SameCells(rows[Offset(files, k) + j], files[k].rows[j],
                                    files[k].cols)

\* a file that failed was skipped and the rows of a parsed file were loaded
C8_Witness ==
    /\ cache.hit
    /\ cache.warned # {}
    /\ Len(cache.value.rows) = 2

\* no file was found, or every file found failed to parse
NothingLoadable == \A i \in 1..Len(cache.files) : ~cache.files[i].ok

\* C10: when no file is found or every file fails to parse, load_data returns an
\* empty Dataset and the pass shows the no-data error and stops: no filter
\* widget, no aggregate, no boundary fetch, nothing else rendered.
C10_EmptyTerminal ==
    (cache.hit /\ NothingLoadable) =>
        /\ cache.value = EmptyFrame
        /\ out.status = "no_data"
        /\ out.rendered = {"header", "no_data_error"}
        /\ out.states = {} /\ out.districts = {} /\ out.date_range = <<>>
        /\ out.total_records = 0 /\ out.total_authentications = 0
        /\ out.state_ratio = NoTable /\ out.summary_df = NoTable
        /\ out.map_data = NoTable
        /\ out.geojson = "" /\ geoCache = "miss"
        /\ widgets = DefaultWidgets

\* a pass ran on files none of which parsed
C10_Witness ==
    /\ cache.hit
    /\ cache.files # <<>>
    /\ NothingLoadable
    /\ out.status = "no_data"

----------------------------------------------------------------------------
(* C11 *)

\* the visible regions of the map and those that carry the label z
Visible == DOMAIN out.map_data
Labelled(z) == {s \in Visible : out.map_data[s].Zone = z}

\* no two visible regions have the same total
DistinctTotals ==
    \A s1, s2 \in Visible : s1 # s2 => out.map_data[s1].total # out.map_data[s2].total

\* k regions out of n differ from n/3 by less than one region
NearThird(k, n) == 3 * k - n < 3 /\ n - 3 * k < 3

\* C11 (amended): for n visible regions with pairwise-distinct totals, the Low
\* regions are the floor(0.33(n-1)) + 1 regions of smallest total and the High
\* regions the n - 1 - floor(0.66(n-1)) regions of largest total; for n <= 53
\* both counts differ from n/3 by less than one region; a region whose total
\* lies exactly on a threshold falls into the lower zone.
C11_ZoneProportions ==
    ("map" \in out.rendered /\ DistinctTotals) =>
        LET n == Cardinality(Visible)
            nLow == Cardinality(Labelled(Low))
            nHigh == Cardinality(Labelled(High))
        IN  /\ n > 0 => nLow = (33 * (n - 1)) \div 100 + 1
            /\ n > 0 => nHigh = n - 1 - (66 * (n - 1)) \div 100
            /\ n <= 53 => NearThird(nLow, n) /\ NearThird(nHigh, n)
            /\ \A s1 \in Labelled(Low), s2 \in Visible \ Labelled(Low) :
                  out.map_data[s1].total < out.map_data[s2].total
            /\ \A s1 \in Labelled(High), s2 \in Visible \ Labelled(High) :
                  out.map_data[s1].total > out.map_data[s2].total
            /\ \A s \in Visible :
                  /\ 100 * out.map_data[s].total = out.low_threshold.x100
                        => out.map_data[s].Zone = Low
                  /\ 100 * out.map_data[s].total = out.high_threshold.x100
                        => out.map_data[s].Zone # High

\* a map of regions with distinct totals on which the three labels are in use
\* and a region's total lies exactly on the upper threshold
C11_Witness ==
    /\ "map" \in out.rendered
    /\ DistinctTotals
    /\ Labelled(Low) # {} /\ Labelled(Medium) # {} /\ Labelled(High) # {}
    /\ \E s \in Visible : 100 * out.map_data[s].total = out.high_threshold.x100

\* C11 as first stated: for every n, the counts of Low and of High differ from
\* n/3 by less than one region
C11_Original ==
    ("map" \in out.rendered /\ DistinctTotals) =>
        /\ NearThird(Cardinality(Labelled(Low)), Cardinality(Visible))
        /\ NearThird(Cardinality(Labelled(High)), Cardinality(Visible))

----------------------------------------------------------------------------
(* C12 *)

\* a two-endpoint range is applied to a date column that has a non-null value
DateFilterApplied == Filtered /\ DateColumnUsable /\ Len(out.date_range) = 2

\* the records of the Dataset that have a date
Dated == LET HasDate(r) == r.date # NaT IN SelectSeq(Dataset, HasDate)

\* the dated records in the selected range, and those of them the region and
\* subregion selections keep
DatedInRange == SelectSeq(Dated, InRange)
DatedKept ==
    LET Keep(r) == PassRegion(r) /\ PassSubregion(r) IN SelectSeq(DatedInRange, Keep)

\* the sum of the per-record totals of a table
TableTotal(rows) == SumSeq([i \in 1..Len(rows) |-> RecordTotal(rows[i])])

\* C12: whenever the date column has a non-null value and a two-endpoint range
\* is selected (the initial full range included), no record with a null date
\* is in the working table, and every downstream result is the one of the dated
\* records alone: the record count, the region choices, the age-band sums, the
\* region sums, the zones' table and the export.
C12_NullDatesVanish ==
    DateFilterApplied =>
        /\ \A r \in Range(out.after_date) \cup Range(out.filtered) \cup Range(out.df) :
              r.date # NaT
        /\ IdxOf(out.df) = IdxOf(DatedKept)
        /\ out.total_records = Len(DatedKept)
        /\ out.states \ {All} = Regions(DatedInRange)
        /\ out.total_authentications = TableTotal(DatedKept)
        /\ out.total_age_5_17 + out.total_age_17_plus = TableTotal(DatedKept)
        /\ "tab4" \in out.rendered =>
              /\ TotalsOf(out.summary_df, "Total") = RegionTotals(DatedKept)
              /\ IdxOf(out.csv) = IdxOf(DatedKept)
        /\ "map" \in out.rendered =>
              TotalsOf(out.map_data, "total") = RegionTotals(DatedKept)

\* under the initial full range a record without a date is gone, and with it
\* its region, which no dated record names
C12_Witness ==
    /\ DateFilterApplied
    /\ "map" \in out.rendered
    /\ out.date_range = <<date_min(out.loaded), date_max(out.loaded)>>
    /\ out.selected_state = All
    /\ out.df # <<>>
    /\ \E r \in Range(Dataset) :
          r.date = NaT /\ r.state \notin out.states /\ r.state \notin DOMAIN out.map_data

----------------------------------------------------------------------------
(* C13 *)

\* what the filters of a pass and the tables computed from them hold
FilterView(o, w) ==
    <<o.date_range, o.selected_state, o.selected_district,
      w.date_range, w.selected_state, w.selected_district,
      o.states, o.districts, o.after_date, o.after_state, o.filtered, o.df,
      o.total_records, o.total_authentications,
      o.state_ratio, o.summary_df, o.csv,
      o.map_data, o.low_threshold, o.high_threshold>>

\* C13: a click on a region of the map changes the deep-dive selection of the
\* map tab and nothing of the filtering: the date range, the selected region and
\* subregion, the working table, the region summaries, the zone table with its
\* thresholds and the export are what they were before the click, and so is
\* the cached Dataset.
C13_MapClickReadOnly ==
    [][ClickMap =>
          /\ FilterView(out', widgets') = FilterView(out, widgets)
          /\ cache' = cache
          /\ \E s \in DOMAIN out.map_data \cup {""} :
                out'.map_state = s /\ widgets'.map_state = s]_vars

\* a region was clicked on the map of a table the filters had narrowed, and its
\* deep dive is shown
C13_Witness ==
    /\ out.map_state # ""
    /\ "deep_dive" \in out.rendered
    /\ out.deep_dive.s_total > 0
    /\ Len(out.filtered) < Len(Dataset)

----------------------------------------------------------------------------
(* C14 *)

\* every visible region has the total v
AllTotals(v) == \A s \in Visible : out.map_data[s].total = v

\* C14: whenever the visible regions all have the same total, both thresholds
\* equal that total and every visible region is labelled Low, whatever the
\* total; a region selected in the filter is the only visible one, so this is
\* its case.
C14_DegenerateZones ==
    "map" \in out.rendered =>
        /\ \A s \in Visible :
              AllTotals(out.map_data[s].total) =>
                  /\ ~out.low_threshold.nan /\ ~out.high_threshold.nan
                  /\ out.low_threshold.x100 = 100 * out.map_data[s].total
                  /\ out.high_threshold.x100 = 100 * out.map_data[s].total
                  /\ Labelled(Low) = Visible
        /\ out.selected_state \notin {All, Unbound} =>
              /\ Visible \subseteq {out.selected_state}
              /\ Labelled(Low) = Visible

\* the region selected in the filter is labelled Low with a total that lies
\* above the 0.66 quantile of the totals of all the regions in the date range:
\* under region "All" the same total is High
C14_Witness ==
    /\ "map" \in out.rendered
    /\ out.selected_state \notin {All, Unbound}
    /\ Visible = {out.selected_state}
    /\ out.map_data[out.selected_state].Zone = Low
    /\ out.map_data[out.selected_state].total > 0
    /\ LET t == RegionTotals(out.after_date)
       IN  /\ t[out.selected_state] = out.map_data[out.selected_state].total
           /\ 100 * t[out.selected_state] > LinearQuantile100(t, 66)

====
